---- MODULE Spec2Model ----
(***************************************************************************)
(* A model of HelpQueueV2 (src/src/help-queue/help-queue.ts): the state of *)
(* one help queue and its operations openQueue, closeQueue, enqueue,       *)
(* dequeueWithHelper, removeStudent, removeAllStudents, addToNotifGroup    *)
(* and removeFromNotifGroup; and of the two entry points that take the     *)
(* chat commands, CentralCommandDispatcher.process (src/unnamed/part_000)  *)
(* and processChatInputCommand (src/unnamed/part_001); and of              *)
(* combineMethodMaps (src/unnamed/part_001), which merges the route tables *)
(* of the extensions into those of base yabob.                             *)
(*                                                                         *)
(* A call is one step: its checks, its state changes, the notices and      *)
(* extension hooks it launches, the re-render it asks for and the way its  *)
(* promise settles.  Every call except removeAllStudents changes the state *)
(* before its first await, so the state it leaves does not depend on what  *)
(* runs during its awaits.  What the awaited collaborators answer (a send  *)
(* to a member, an extension hook, the renderer) is an input of the step.  *)
(*                                                                         *)
(* Spec runs the calls on the line and the helpers with every answer of    *)
(* the collaborators, within one clock reading.  SpecClock runs the same   *)
(* calls while the clock advances, for the properties of the timestamps.   *)
(* SpecNotif runs the calls on the notification group.  SpecRestore runs   *)
(* the constructor on every backup.  SpecAwait splits enqueue and          *)
(* removeAllStudents at their awaits.  SpecConcurrent interleaves enqueue  *)
(* and dequeueWithHelper calls at their awaits, and SpecFair does so under *)
(* a fair event loop, one awaited send or render never returning.  SpecAll *)
(* runs all eight calls of the                                             *)
(* queue.  SpecDispatch hands one interaction to an entry point of the     *)
(* dispatcher.  SpecCombine calls combineMethodMaps on every base table    *)
(* and every array of extensions.                                          *)
(***************************************************************************)
EXTENDS Integers, Sequences, FiniteSets, TLC

VARIABLES
    helpers,     \* Collection<string, Helper>, in insertion order
    students,    \* Helpee[], the waiting line
    notifGroup,  \* Collection<string, GuildMember>, as the set of its keys
    isOpen,      \* boolean
    now,         \* the reading new Date() gives
    outcome,     \* how the last call settled, and what it launched
    given,       \* the arguments a constructor call in progress was given
    pending,     \* the calls suspended at an await, with what they hold
    dispatch,    \* the interaction the dispatcher handled last, with its replies
    methodMaps   \* the route tables at startup, before and after they are combined

vars == <<helpers, students, notifGroup, isOpen, now, outcome,
          given, pending, dispatch, methodMaps>>

\* what the calls on a constructed queue, each taken as one step, leave alone
aux == <<given, pending, dispatch, methodMaps>>

\* The guild members that take part (GuildMember.id).
Members == {"m1", "m2", "m3"}

\* The clock readings of a run are 0..MaxTime.
MaxTime == 1

\* A helper's helpedMembers is followed up to this length.
MaxHelped == 2

\* The length of a backed-up waiting line.
MaxBackup == 2

----------------------------------------------------------------------------
(* Sequences *)

SeqsUpTo(S, n) == UNION {[1..k -> S] : k \in 0..n}

\* Array.prototype.splice(idx, 1), idx 1-based
Splice1(s, idx) == [i \in 1..(Len(s) - 1) |-> IF i < idx THEN s[i] ELSE s[i + 1]]

----------------------------------------------------------------------------
(* discord.js Collection (a Map), keyed by the member id of its values *)

CollHas(c, id) == \E i \in DOMAIN c : c[i].member = id

CollGet(c, id) == c[CHOOSE i \in DOMAIN c : c[i].member = id]

CollSet(c, id, v) ==
    IF CollHas(c, id)
    THEN [i \in DOMAIN c |-> IF c[i].member = id THEN v ELSE c[i]]
    ELSE Append(c, v)

CollDelete(c, id) == SelectSeq(c, LAMBDA e : e.member # id)

CollKeys(c) == {c[i].member : i \in DOMAIN c}

----------------------------------------------------------------------------
(* How a call settles *)

\* The answers of the renderer to a re-render: the incremental render is
\* accepted; it is rejected and the full redraw of the channel succeeds; it
\* is rejected and the full redraw fails too.
RenderAnswers == {"ok", "redrawn", "failed"}

\* triggerRender resolves unless cleanUpQueueChannel, its recovery, rejects
TriggerRenderResolves(render) == render # "failed"

\* The view model triggerRender and cleanUpQueueChannel build: each reads
\* the helpers, the line and isOpen as the call has left them.
ViewModel ==
    [helperIDs |-> [i \in DOMAIN helpers' |-> helpers'[i].member],
     studentDisplayNames |-> [i \in DOMAIN students' |-> students'[i].member],
     isOpen |-> isOpen']

\* display.renderQueue(viewModel, sendNew)
RenderQueue(viewModel, sendNew) == <<"renderQueue", viewModel, sendNew>>

\* Promise.all((await messages.fetch()).map(msg => msg.delete()))
DeleteMessages == <<"delete every message of the channel">>

\* a slip: the recovery asks for the incremental render once more
CleanUpQueueChannelRetry == <<RenderQueue(ViewModel, FALSE)>>

\* cleanUpQueueChannel: what it asks of the channel and the display
CleanUpQueueChannel == <<DeleteMessages, RenderQueue(ViewModel, TRUE)>>

\* triggerRender: what it asks of the channel and the display, given the
\* answer of the renderer
TriggerRender(render) ==
    IF render = "ok" THEN <<RenderQueue(ViewModel, FALSE)>>
    ELSE <<RenderQueue(ViewModel, FALSE)>> \o CleanUpQueueChannel

NoError == "none"
CollaboratorError == "a notification, hook or render rejected"

\* a slip: the check is made after the re-render was asked for
RejectedAfterRender(op, who, error) ==
    [op |-> op, who |-> who, status |-> "rejected", error |-> error,
     helper |-> <<>>, student |-> <<>>,
     notified |-> {}, hooks |-> {}, render |-> "ok", awaited |-> "all",
     display |-> <<>>]

\* a call rejected by one of its own checks: nothing is launched
Rejected(op, who, error) ==
    [op |-> op, who |-> who, status |-> "rejected", error |-> error,
     helper |-> <<>>, student |-> <<>>,
     notified |-> {}, hooks |-> {}, render |-> "none", awaited |-> "all",
     display |-> <<>>]

\* a call that passed its checks and changed the state: launched is true
\* when every promise of its awaited Promise.all resolved; only then the
\* re-render is asked for.  [awaited] tells which of the sends and hooks
\* the call waited for before it went on: Promise.all fulfils when all its
\* promises have, and rejects with the first rejection without waiting
\* for the rest.
Settled(op, who, helper, student, notified, hooks, launched, render) ==
    LET resolved == launched /\ TriggerRenderResolves(render)
    IN  [op |-> op, who |-> who,
         status |-> IF resolved THEN "resolved" ELSE "rejected",
         error |-> IF resolved THEN NoError ELSE CollaboratorError,
         helper |-> IF resolved THEN helper ELSE <<>>,
         student |-> IF resolved THEN student ELSE <<>>,
         notified |-> notified, hooks |-> hooks,
         render |-> IF launched THEN render ELSE "none",
         awaited |-> IF launched THEN "all" ELSE "up to the first rejection",
         display |-> <<>>]

\* await this.triggerRender(), the last step of a call that got past its
\* Promise.all: [display] what was asked of the channel and the display
Rendered(settled) ==
    [settled EXCEPT !.display = IF settled.render = "none" THEN <<>>
                                 ELSE TriggerRender(settled.render)]

\* the extensions handed to the constructor
queueExtensions == {"extension1", "extension2"}

\* a slip: the hook of the first extension only
MapFirstExtension(hook) == {<<"extension1", hook>>}

\* this.queueExtensions.map(extension => extension.hook(...)): map calls
\* the hook of every extension before any of the promises is looked at
MapExtensions(hook) == {<<extension, hook>> : extension \in queueExtensions}

----------------------------------------------------------------------------
(* The constructor *)

\* the lines a backup can hold: what an earlier run of the queue wrote
Backups ==
    {b \in SeqsUpTo([memberId : Members, waitStart : {0}, upNext : BOOLEAN],
                    MaxBackup) :
        /\ \A i, j \in DOMAIN b : b[i].memberId = b[j].memberId => i = j
        /\ \A i \in DOMAIN b : b[i].upNext => i = 1}

\* a slip: every entry is pushed, its member looked up or not
RestoreAll(studentsInQueue, channelMembers) ==
    [i \in DOMAIN studentsInQueue |->
        [waitStart |-> studentsInQueue[i].waitStart,
         upNext |-> studentsInQueue[i].upNext,
         member |-> studentsInQueue[i].memberId]]

\* backupData.studentsInQueue.forEach: push the entries whose member is in
\* the channel
RECURSIVE Restore(_, _)
Restore(studentsInQueue, channelMembers) ==
    IF studentsInQueue = <<>> THEN <<>>
    ELSE LET studentBackup == Head(studentsInQueue)
             rest == Restore(Tail(studentsInQueue), channelMembers)
         IN  IF studentBackup.memberId \in channelMembers
             THEN <<[waitStart |-> studentBackup.waitStart,
                     upNext |-> studentBackup.upNext,
                     member |-> studentBackup.memberId]>> \o rest
             ELSE rest

Init ==
    /\ helpers = <<>>
    /\ \E b \in Backups, channelMembers \in SUBSET Members :
           students = Restore(b, channelMembers)
    /\ notifGroup = {}
    /\ isOpen = FALSE
    /\ now = 0
    /\ outcome = Settled("constructor", "none", <<>>, <<>>, {}, {}, TRUE, "ok")
    /\ given = <<>>
    /\ pending = <<>>
    /\ methodMaps = <<>>
    /\ dispatch = <<>>

\* The constructor as a step of its own: the fields hold their initialisers
\* and the arguments are any backed-up line, its requesters having joined
\* at any readings, and any set of members present in the channel.
BackupLines ==
    {b \in SeqsUpTo([memberId : Members, waitStart : 0..MaxTime, upNext : BOOLEAN],
                    MaxBackup) :
        /\ \A i, j \in DOMAIN b : b[i].memberId = b[j].memberId => i = j
        /\ \A i, j \in DOMAIN b : i < j => b[i].waitStart <= b[j].waitStart
        /\ \A i \in DOMAIN b : b[i].upNext => i = 1}

InitRestore ==
    /\ helpers = <<>>
    /\ students = <<>>
    /\ notifGroup = {}
    /\ isOpen = FALSE
    /\ now = 0
    /\ outcome = Settled("none", "none", <<>>, <<>>, {}, {}, TRUE, "none")
    /\ \E b \in BackupLines, channelMembers \in SUBSET Members :
           given = <<[backupData |-> b, channelMembers |-> channelMembers]>>
    /\ pending = <<>>
    /\ methodMaps = <<>>
    /\ dispatch = <<>>

Construct ==
    /\ outcome.op = "none"
    /\ students' = Restore(given[1].backupData, given[1].channelMembers)
    /\ outcome' = Settled("constructor", "none", <<>>, <<>>, {}, {}, TRUE, "ok")
    /\ UNCHANGED <<helpers, notifGroup, isOpen, now, given, pending, dispatch,
                   methodMaps>>

SpecRestore == InitRestore /\ [][Construct]_vars

----------------------------------------------------------------------------
(* openQueue *)

\* a slip: the check for a member already helping is left out
OpenQueueNeverRejects(helperMember) == FALSE

OpenQueueRejects(helperMember) == CollHas(helpers, helperMember)

NewHelper(helperMember) ==
    [helpStart |-> now, helpedMembers |-> <<>>, member |-> helperMember]

\* a slip: the notice is sent whatever notify says
OpenNoticesAlways(notify) == notifGroup

\* the members the open notice is sent to
OpenNotices(notify) == IF notify THEN notifGroup ELSE {}

\* The array handed to Promise.all holds two arrays, not promises: it
\* resolves whatever the sends and the onQueueOpen hooks answer, and
\* without waiting for any of them.
OpenQueue(helperMember, notify, render) ==
    IF OpenQueueRejects(helperMember)
    THEN /\ outcome' = Rejected("openQueue", helperMember, "Queue is already open")
         /\ UNCHANGED <<helpers, students, notifGroup, isOpen, now>>
    ELSE /\ isOpen' = TRUE
         /\ helpers' = CollSet(helpers, helperMember, NewHelper(helperMember))
         /\ UNCHANGED <<students, notifGroup, now>>
         /\ outcome' = Rendered([Settled("openQueue", helperMember, <<>>, <<>>,
                                OpenNotices(notify), MapExtensions("onQueueOpen"), TRUE, render)
                            EXCEPT !.awaited = "nothing"])

----------------------------------------------------------------------------
(* closeQueue *)

CloseQueueError(helperMember) ==
    IF ~isOpen THEN "Queue is already closed"
    ELSE IF ~CollHas(helpers, helperMember) THEN "You are not one of the helpers"
    ELSE NoError

\* a slip: the queue is closed as soon as any helper leaves
OpenAfterCloseNever(helpersLeft) == FALSE

\* a slip: isOpen is not recomputed when a helper leaves
OpenAfterCloseStale(helpersLeft) == TRUE

\* this.isOpen = this.helpers.size > 0, after the delete
OpenAfterClose(helpersLeft) == Len(helpersLeft) > 0

ClosedHelper(helper) ==
    [helpStart |-> helper.helpStart, helpedMembers |-> helper.helpedMembers,
     member |-> helper.member, helpEnd |-> now]

\* a slip: the line is emptied when the last helper leaves
CloseQueueEmptiesLine(helperMember, extOk, render) ==
    IF CloseQueueError(helperMember) # NoError
    THEN /\ outcome' = Rejected("closeQueue", helperMember, CloseQueueError(helperMember))
         /\ UNCHANGED <<helpers, students, notifGroup, isOpen, now>>
    ELSE LET helper == CollGet(helpers, helperMember)
         IN  /\ helpers' = CollDelete(helpers, helperMember)
             /\ isOpen' = OpenAfterClose(helpers')
             /\ students' = IF isOpen' THEN students ELSE <<>>
             /\ UNCHANGED <<notifGroup, now>>
             /\ outcome' = Rendered(Settled("closeQueue", helperMember,
                                   <<ClosedHelper(helper)>>, <<>>,
                                   {}, MapExtensions("onQueueClose"), extOk, render))

CloseQueue(helperMember, extOk, render) ==
    IF CloseQueueError(helperMember) # NoError
    THEN /\ outcome' = Rejected("closeQueue", helperMember, CloseQueueError(helperMember))
         /\ UNCHANGED <<helpers, students, notifGroup, isOpen, now>>
    ELSE LET helper == CollGet(helpers, helperMember)
         IN  /\ helpers' = CollDelete(helpers, helperMember)
             /\ isOpen' = OpenAfterClose(helpers')
             /\ UNCHANGED <<students, notifGroup, now>>
             /\ outcome' = Rendered(Settled("closeQueue", helperMember,
                                   <<ClosedHelper(helper)>>, <<>>,
                                   {}, MapExtensions("onQueueClose"), extOk, render))

----------------------------------------------------------------------------
(* enqueue *)

InLine(member) == \E i \in DOMAIN students : students[i].member = member

\* a slip: the check for a member already waiting is left out
EnqueueErrorNoLineCheck(studentMember) ==
    IF ~isOpen THEN "Queue is not open."
    ELSE IF CollHas(helpers, studentMember)
         THEN "You cannot enqueue yourself while helping."
    ELSE NoError

\* a slip: the check for a member who is helping is left out
EnqueueErrorNoHelperCheck(studentMember) ==
    IF ~isOpen THEN "Queue is not open."
    ELSE IF InLine(studentMember) THEN "You are already in the queue."
    ELSE NoError

EnqueueError(studentMember) ==
    IF ~isOpen THEN "Queue is not open."
    ELSE IF InLine(studentMember) THEN "You are already in the queue."
    ELSE IF CollHas(helpers, studentMember)
         THEN "You cannot enqueue yourself while helping."
    ELSE NoError

\* a slip: every new student is marked as up next
NewStudentUpNext(studentMember) ==
    [waitStart |-> now, upNext |-> TRUE, member |-> studentMember]

NewStudent(studentMember) ==
    [waitStart |-> now, upNext |-> (Len(students) = 0), member |-> studentMember]

\* a slip: unshift in place of push
PushFront(line, student) == <<student>> \o line

Push(line, student) == Append(line, student)

\* Promise.all over the flattened sends to the helpers and onEnqueue hooks
Enqueue(studentMember, sendOk, extOk, render) ==
    IF EnqueueError(studentMember) # NoError
    THEN /\ outcome' = Rejected("enqueue", studentMember, EnqueueError(studentMember))
         /\ UNCHANGED <<helpers, students, notifGroup, isOpen, now>>
    ELSE /\ students' = Push(students, NewStudent(studentMember))
         /\ UNCHANGED <<helpers, notifGroup, isOpen, now>>
         /\ outcome' = Rendered(Settled("enqueue", studentMember, <<>>, <<>>,
                               CollKeys(helpers), MapExtensions("onEnqueue"),
                               sendOk /\ extOk, render))

----------------------------------------------------------------------------
(* dequeueWithHelper *)

\* a slip: the permission check placed before the check for an empty line
DequeueErrorHelperFirst(helperMember) ==
    IF ~isOpen THEN "This queue is not open."
    ELSE IF ~CollHas(helpers, helperMember)
         THEN "You do not have permission to help this queue"
    ELSE IF Len(students) = 0 THEN "There is no one in the queue"
    ELSE NoError

DequeueError(helperMember) ==
    IF ~isOpen THEN "This queue is not open."
    ELSE IF Len(students) = 0 THEN "There is no one in the queue"
    ELSE IF ~CollHas(helpers, helperMember)
         THEN "You do not have permission to help this queue"
    ELSE NoError

\* a slip: pop in place of shift
Pop(line) == [first |-> line[Len(line)], rest |-> SubSeq(line, 1, Len(line) - 1)]

\* this.students.shift(): the removed element and the rest
Shift(line) == [first |-> Head(line), rest |-> Tail(line)]

\* a slip: the served member is not recorded
HelpedNobody(helper, firstStudent) == helper

Helped(helper, firstStudent) ==
    [helper EXCEPT !.helpedMembers = Append(@, firstStudent.member)]

DequeueWithHelper(helperMember, extOk, render) ==
    IF DequeueError(helperMember) # NoError
    THEN /\ outcome' = Rejected("dequeueWithHelper", helperMember,
                                DequeueError(helperMember))
         /\ UNCHANGED <<helpers, students, notifGroup, isOpen, now>>
    ELSE LET helper == CollGet(helpers, helperMember)
             firstStudent == Shift(students).first
         IN  /\ Len(helper.helpedMembers) < MaxHelped
             /\ students' = Shift(students).rest
             /\ helpers' = CollSet(helpers, helperMember, Helped(helper, firstStudent))
             /\ UNCHANGED <<notifGroup, isOpen, now>>
             /\ outcome' = Rendered(Settled("dequeueWithHelper", helperMember,
                                   <<>>, <<firstStudent>>,
                                   {}, MapExtensions("onDequeue"), extOk, render))

----------------------------------------------------------------------------
(* removeStudent, removeAllStudents *)

\* a slip: the head of the line is taken when the member is in the line
StudentIndexHead(targetStudent) ==
    IF \E i \in DOMAIN students : students[i].member = targetStudent
    THEN 1 ELSE 0

\* findIndex over the line, 1-based; 0 stands for -1
StudentIndex(targetStudent) ==
    IF \E i \in DOMAIN students : students[i].member = targetStudent
    THEN CHOOSE i \in DOMAIN students :
             /\ students[i].member = targetStudent
             /\ \A j \in 1..(i - 1) : students[j].member # targetStudent
    ELSE 0

RemoveStudent(targetStudent, extOk, render) ==
    LET idx == StudentIndex(targetStudent)
    IN  IF idx = 0
        THEN /\ outcome' = Rejected("removeStudent", targetStudent,
                                    "is not in the queue")
             /\ UNCHANGED <<helpers, students, notifGroup, isOpen, now>>
        ELSE /\ students' = Splice1(students, idx)
             /\ UNCHANGED <<helpers, notifGroup, isOpen, now>>
             /\ outcome' = Rendered(Settled("removeStudent", targetStudent, <<>>, <<>>,
                                   {}, MapExtensions("onStudentRemove"), extOk, render))

\* a slip: clearing the line clears the notification group as well
RemoveAllStudentsAndNotifGroup(extOk, render) ==
    /\ students' = IF extOk THEN <<>> ELSE students
    /\ notifGroup' = {}
    /\ UNCHANGED <<helpers, isOpen, now>>
    /\ outcome' = Rendered(Settled("removeAllStudents", "none", <<>>, <<>>,
                          {}, MapExtensions("onRemoveAllStudents"), extOk, render))

\* the onRemoveAllStudents hooks are awaited first: the line is emptied only
\* when they all resolve
RemoveAllStudents(extOk, render) ==
    /\ students' = IF extOk THEN <<>> ELSE students
    /\ UNCHANGED <<helpers, notifGroup, isOpen, now>>
    /\ outcome' = Rendered(Settled("removeAllStudents", "none", <<>>, <<>>,
                          {}, MapExtensions("onRemoveAllStudents"), extOk, render))

----------------------------------------------------------------------------
(* The notification group *)

\* a slip: the subscription is stored without the has() check
AddToNotifGroupUnchecked(targetStudent) ==
    /\ notifGroup' = notifGroup \cup {targetStudent}
    /\ outcome' = Settled("addToNotifGroup", targetStudent, <<>>, <<>>,
                          {}, {}, TRUE, "none")
    /\ UNCHANGED <<helpers, students, isOpen, now>>

AddToNotifGroup(targetStudent) ==
    IF targetStudent \in notifGroup
    THEN /\ outcome' = Rejected("addToNotifGroup", targetStudent,
                                "You are already in the notification squad.")
         /\ UNCHANGED <<helpers, students, notifGroup, isOpen, now>>
    ELSE /\ notifGroup' = notifGroup \cup {targetStudent}
         /\ outcome' = Settled("addToNotifGroup", targetStudent, <<>>, <<>>,
                               {}, {}, TRUE, "none")
         /\ UNCHANGED <<helpers, students, isOpen, now>>

RemoveFromNotifGroup(targetStudent) ==
    IF targetStudent \notin notifGroup
    THEN /\ outcome' = Rejected("removeFromNotifGroup", targetStudent,
                                "You are not in the notification squad.")
         /\ UNCHANGED <<helpers, students, notifGroup, isOpen, now>>
    ELSE /\ notifGroup' = notifGroup \ {targetStudent}
         /\ outcome' = Settled("removeFromNotifGroup", targetStudent, <<>>, <<>>,
                               {}, {}, TRUE, "none")
         /\ UNCHANGED <<helpers, students, isOpen, now>>

----------------------------------------------------------------------------
(* The clock: what new Date() reads does not decrease and may stay the same
   from one call to the next *)

Tick ==
    /\ now < MaxTime
    /\ now' = now + 1
    /\ UNCHANGED <<helpers, students, notifGroup, isOpen, outcome>>
    /\ UNCHANGED aux

----------------------------------------------------------------------------

\* The members that hold a helping role: the callers of openQueue.
Staff == {"m1", "m2"}

\* What the awaited collaborators answer to one call: [send] the notices to
\* the members, [ext] the extension hooks, [render] the renderer.
Answers == [send : BOOLEAN, ext : BOOLEAN, render : RenderAnswers]

\* at most one collaborator fails during one call
SingleFault ==
    {a \in Answers :
        \/ a.send /\ a.ext
        \/ a.send /\ a.render = "ok"
        \/ a.ext /\ a.render = "ok"}

\* openQueue awaits neither its sends nor its hooks, closeQueue,
\* dequeueWithHelper, removeStudent and removeAllStudents send nothing: the
\* answers they do not wait for are taken as given.
DoOpenQueue == \E m \in Staff, notify \in BOOLEAN, a \in SingleFault :
    a.send /\ a.ext /\ OpenQueue(m, notify, a.render) /\ UNCHANGED aux

DoCloseQueue == \E m \in Members, a \in SingleFault :
    a.send /\ CloseQueue(m, a.ext, a.render) /\ UNCHANGED aux

DoEnqueue == \E m \in Members, a \in SingleFault :
    Enqueue(m, a.send, a.ext, a.render) /\ UNCHANGED aux

DoDequeueWithHelper == \E m \in Members, a \in SingleFault :
    a.send /\ DequeueWithHelper(m, a.ext, a.render) /\ UNCHANGED aux

DoRemoveStudent == \E m \in Members, a \in SingleFault :
    a.send /\ RemoveStudent(m, a.ext, a.render) /\ UNCHANGED aux

DoRemoveAllStudents == \E a \in SingleFault :
    a.send /\ RemoveAllStudents(a.ext, a.render) /\ UNCHANGED aux

DoAddToNotifGroup == \E m \in Members : AddToNotifGroup(m) /\ UNCHANGED aux

DoRemoveFromNotifGroup == \E m \in Members : RemoveFromNotifGroup(m) /\ UNCHANGED aux

\* The calls on the waiting line and the helpers, within one clock reading.
Next ==
    \/ DoOpenQueue
    \/ DoCloseQueue
    \/ DoEnqueue
    \/ DoDequeueWithHelper
    \/ DoRemoveStudent
    \/ DoRemoveAllStudents

Spec == Init /\ [][Next]_vars

\* The same calls while the clock advances, every collaborator answering.
\* No call branches on a clock reading: the readings are carried as data.
Calm == [send |-> TRUE, ext |-> TRUE, render |-> "ok"]

TimedOpenQueue == \E m \in Staff : OpenQueue(m, FALSE, Calm.render) /\ UNCHANGED aux

TimedCloseQueue == \E m \in Members : CloseQueue(m, Calm.ext, Calm.render) /\ UNCHANGED aux

TimedEnqueue == \E m \in Members : Enqueue(m, Calm.send, Calm.ext, Calm.render) /\ UNCHANGED aux

TimedDequeueWithHelper == \E m \in Members :
    DequeueWithHelper(m, Calm.ext, Calm.render) /\ UNCHANGED aux

TimedRemoveStudent == \E m \in Members : RemoveStudent(m, Calm.ext, Calm.render) /\ UNCHANGED aux

TimedRemoveAllStudents ==
    RemoveAllStudents(Calm.ext, Calm.render) /\ UNCHANGED aux

NextClock ==
    \/ Tick
    \/ TimedOpenQueue
    \/ TimedCloseQueue
    \/ TimedEnqueue
    \/ TimedDequeueWithHelper
    \/ TimedRemoveStudent
    \/ TimedRemoveAllStudents

SpecClock == Init /\ [][NextClock]_vars

\* The calls on the notification group, and the calls that open and close
\* the queue around them, every collaborator answering.
NotifOpenQueue == \E m \in Staff, notify \in BOOLEAN :
    OpenQueue(m, notify, Calm.render) /\ UNCHANGED aux

NextNotif ==
    \/ DoAddToNotifGroup
    \/ DoRemoveFromNotifGroup
    \/ NotifOpenQueue
    \/ TimedCloseQueue

SpecNotif == Init /\ [][NextNotif]_vars

\* Every call of the queue, on the line, the helpers and the notification
\* group, within one clock reading and every collaborator answering.
NextAll ==
    \/ DoAddToNotifGroup
    \/ DoRemoveFromNotifGroup
    \/ NotifOpenQueue
    \/ TimedCloseQueue
    \/ TimedEnqueue
    \/ TimedDequeueWithHelper
    \/ TimedRemoveStudent
    \/ TimedRemoveAllStudents

SpecAll == Init /\ [][NextAll]_vars

----------------------------------------------------------------------------
(* The calls at the grain of their awaits.  A call runs from its start to
   its first await as one step and is then suspended; it is resumed when
   what it awaits has settled, and calls started meanwhile have run up to
   their own awaits.  enqueue has pushed its requester before it is
   suspended; removeAllStudents is suspended on its hooks before it empties
   the line.  openQueue and closeQueue change the state before their first
   await and are taken whole. *)

\* the calls in flight at one time
MaxPending == 2

Suspended(op, who, passed) == [op |-> op, who |-> who, passed |-> passed]

\* enqueue up to await Promise.all(...)
BeginEnqueue(studentMember) ==
    IF EnqueueError(studentMember) # NoError
    THEN /\ outcome' = Rejected("enqueue", studentMember, EnqueueError(studentMember))
         /\ UNCHANGED <<helpers, students, notifGroup, isOpen, now, pending>>
    ELSE /\ Len(pending) < MaxPending
         /\ students' = Push(students, NewStudent(studentMember))
         /\ pending' = Append(pending,
                Suspended("enqueue", studentMember, <<NewStudent(studentMember)>>))
         /\ UNCHANGED <<helpers, notifGroup, isOpen, now, outcome>>

\* enqueue from the settling of its sends and hooks to its end
ResumeEnqueue(i, sendOk, extOk, render) ==
    /\ pending[i].op = "enqueue"
    /\ pending' = Splice1(pending, i)
    /\ UNCHANGED <<helpers, students, notifGroup, isOpen, now>>
    /\ outcome' = Rendered(Settled("enqueue", pending[i].who, <<>>, <<>>,
                          CollKeys(helpers), MapExtensions("onEnqueue"), sendOk /\ extOk, render))

\* removeAllStudents up to await Promise.all(...): the hooks are handed
\* this.students
BeginRemoveAllStudents ==
    /\ Len(pending) < MaxPending
    /\ pending' = Append(pending, Suspended("removeAllStudents", "none", students))
    /\ UNCHANGED <<helpers, students, notifGroup, isOpen, now, outcome>>

\* removeAllStudents from the settling of its hooks to its end
ResumeRemoveAllStudents(i, extOk, render) ==
    /\ pending[i].op = "removeAllStudents"
    /\ pending' = Splice1(pending, i)
    /\ students' = IF extOk THEN <<>> ELSE students
    /\ UNCHANGED <<helpers, notifGroup, isOpen, now>>
    /\ outcome' = Rendered(Settled("removeAllStudents", "none", <<>>, <<>>,
                          {}, MapExtensions("onRemoveAllStudents"), extOk, render))

AwaitBeginEnqueue == \E m \in Members :
    BeginEnqueue(m) /\ UNCHANGED <<given, dispatch, methodMaps>>

AwaitResumeEnqueue == \E i \in DOMAIN pending :
    ResumeEnqueue(i, Calm.send, Calm.ext, Calm.render) /\ UNCHANGED <<given, dispatch, methodMaps>>

AwaitBeginRemoveAllStudents ==
    BeginRemoveAllStudents /\ UNCHANGED <<given, dispatch, methodMaps>>

AwaitResumeRemoveAllStudents == \E i \in DOMAIN pending, extOk \in BOOLEAN :
    ResumeRemoveAllStudents(i, extOk, Calm.render) /\ UNCHANGED <<given, dispatch, methodMaps>>

NextAwait ==
    \/ TimedOpenQueue
    \/ TimedCloseQueue
    \/ AwaitBeginEnqueue
    \/ AwaitResumeEnqueue
    \/ AwaitBeginRemoveAllStudents
    \/ AwaitResumeRemoveAllStudents

SpecAwait == Init /\ [][NextAwait]_vars

----------------------------------------------------------------------------
(* enqueue and dequeueWithHelper invoked concurrently.  Node runs one call
   at a time up to its next await: a call holds no lock, and what it awaits
   (the sends to the helpers, the hooks, the renderer) settles on its own.
   A call in flight keeps a slot from its start to its end.  An awaited
   send or render may never return: the call that awaits it stays in
   flight. *)

Slots == 1..MaxPending

FreeSlot == CHOOSE slot \in Slots : \A i \in DOMAIN pending : pending[i].slot # slot

InFlight(slot, op, who, passed, hang) ==
    [slot |-> slot, op |-> op, who |-> who, passed |-> passed, hang |-> hang]

Landed(slot) == SelectSeq(pending, LAMBDA call : call.slot # slot)

\* a slip: the calls in flight are resumed in the order they started
ResumableInTurn(slot) ==
    /\ pending # <<>>
    /\ pending[1].slot = slot
    /\ pending[1].hang = "none"

\* a suspended call runs on when what it awaits has settled
Resumable(slot) ==
    \E i \in DOMAIN pending : pending[i].slot = slot /\ pending[i].hang = "none"

Call(slot) == pending[CHOOSE i \in DOMAIN pending : pending[i].slot = slot]

\* enqueue up to await Promise.all(...)
InvokeEnqueue(studentMember, hang) ==
    IF EnqueueError(studentMember) # NoError
    THEN /\ outcome' = Rejected("enqueue", studentMember, EnqueueError(studentMember))
         /\ UNCHANGED <<helpers, students, notifGroup, isOpen, now, pending>>
    ELSE /\ Len(pending) < MaxPending
         /\ students' = Push(students, NewStudent(studentMember))
         /\ pending' = Append(pending,
                InFlight(FreeSlot, "enqueue", studentMember,
                         <<NewStudent(studentMember)>>, hang))
         /\ UNCHANGED <<helpers, notifGroup, isOpen, now, outcome>>

\* enqueue from the settling of its sends and hooks to its end
LandEnqueue(slot, sendOk, extOk, render) ==
    /\ Resumable(slot)
    /\ Call(slot).op = "enqueue"
    /\ pending' = Landed(slot)
    /\ UNCHANGED <<helpers, students, notifGroup, isOpen, now>>
    /\ outcome' = Rendered(Settled("enqueue", Call(slot).who, <<>>, <<>>,
                          CollKeys(helpers), MapExtensions("onEnqueue"), sendOk /\ extOk, render))

\* a slip: the head of the line is read and left in the line
InvokeDequeueWithHelperPeek(helperMember, hang) ==
    IF DequeueError(helperMember) # NoError
    THEN /\ outcome' = Rejected("dequeueWithHelper", helperMember,
                                DequeueError(helperMember))
         /\ UNCHANGED <<helpers, students, notifGroup, isOpen, now, pending>>
    ELSE LET helper == CollGet(helpers, helperMember)
             firstStudent == Head(students)
         IN  /\ Len(pending) < MaxPending
             /\ Len(helper.helpedMembers) < MaxHelped
             /\ helpers' = CollSet(helpers, helperMember, Helped(helper, firstStudent))
             /\ pending' = Append(pending,
                    InFlight(FreeSlot, "dequeueWithHelper", helperMember,
                             <<firstStudent>>, hang))
             /\ UNCHANGED <<students, notifGroup, isOpen, now, outcome>>

\* dequeueWithHelper up to await Promise.all(...)
InvokeDequeueWithHelper(helperMember, hang) ==
    IF DequeueError(helperMember) # NoError
    THEN /\ outcome' = Rejected("dequeueWithHelper", helperMember,
                                DequeueError(helperMember))
         /\ UNCHANGED <<helpers, students, notifGroup, isOpen, now, pending>>
    ELSE LET helper == CollGet(helpers, helperMember)
             firstStudent == Shift(students).first
         IN  /\ Len(pending) < MaxPending
             /\ Len(helper.helpedMembers) < MaxHelped
             /\ students' = Shift(students).rest
             /\ helpers' = CollSet(helpers, helperMember, Helped(helper, firstStudent))
             /\ pending' = Append(pending,
                    InFlight(FreeSlot, "dequeueWithHelper", helperMember,
                             <<firstStudent>>, hang))
             /\ UNCHANGED <<notifGroup, isOpen, now, outcome>>

\* dequeueWithHelper from the settling of its hooks to return firstStudent
LandDequeueWithHelper(slot, extOk, render) ==
    /\ Resumable(slot)
    /\ Call(slot).op = "dequeueWithHelper"
    /\ pending' = Landed(slot)
    /\ UNCHANGED <<helpers, students, notifGroup, isOpen, now>>
    /\ outcome' = Rendered(Settled("dequeueWithHelper", Call(slot).who,
                          <<>>, Call(slot).passed,
                          {}, MapExtensions("onDequeue"), extOk, render))

ConcurrentInvokeEnqueue == \E m \in Members :
    InvokeEnqueue(m, "none") /\ UNCHANGED <<given, dispatch, methodMaps>>

ConcurrentInvokeDequeueWithHelper == \E m \in Staff :
    InvokeDequeueWithHelper(m, "none") /\ UNCHANGED <<given, dispatch, methodMaps>>

ConcurrentLand(slot) ==
    /\ \/ LandEnqueue(slot, Calm.send, Calm.ext, Calm.render)
       \/ LandDequeueWithHelper(slot, Calm.ext, Calm.render)
    /\ UNCHANGED <<given, dispatch, methodMaps>>

ConcurrentLanding == \E slot \in Slots : ConcurrentLand(slot)

\* The helpers open the queue and stay; requesters join and are dequeued;
\* every awaited send, hook and render settles.
NextConcurrent ==
    \/ TimedOpenQueue
    \/ ConcurrentInvokeEnqueue
    \/ ConcurrentInvokeDequeueWithHelper
    \/ ConcurrentLanding

\* the queue constructed without a backup
InitConcurrent == Init /\ students = <<>>

SpecConcurrent == InitConcurrent /\ [][NextConcurrent]_vars

\* the event loop runs every call whose awaited promise has settled
LoopFairness == \A slot \in Slots : WF_vars(ConcurrentLand(slot))

\* The same calls, one external call of one of them never returning.
NoneHangs == \A i \in DOMAIN pending : pending[i].hang = "none"

\* the members who are not staff join the line; a send to a helper may hang
FairInvokeEnqueue == \E m \in Members \ Staff, hang \in {"none", "send"} :
    /\ hang # "none" => NoneHangs
    /\ InvokeEnqueue(m, hang)
    /\ UNCHANGED <<given, dispatch, methodMaps>>

\* the render may hang
FairInvokeDequeueWithHelper == \E m \in Staff, hang \in {"none", "render"} :
    /\ hang # "none" => NoneHangs
    /\ InvokeDequeueWithHelper(m, hang)
    /\ UNCHANGED <<given, dispatch, methodMaps>>

NextFair ==
    \/ TimedOpenQueue
    \/ FairInvokeEnqueue
    \/ FairInvokeDequeueWithHelper
    \/ ConcurrentLanding

SpecFair == InitConcurrent /\ [][NextFair]_vars /\ LoopFairness

----------------------------------------------------------------------------
(* CentralCommandDispatcher (src/unnamed/part_000).  process handles one
   interaction from its first line to its end as one step.  The servers
   (AttendingServerV2) are reached through their methods only: the model
   keeps the methods a handler invoked, in order, and whether the last of
   them rejected.  An interaction is what process and the handlers read
   from it. *)

\* a role named like the queue the interaction names
QueueName == "queueName"

RoleNames == {"Bot Admin", "Staff", QueueName}

\* commandMethodMap: the command names and the methods they are bound to
commandMethodMap ==
    [announce |-> "announce",
     cleanup_queue |-> "cleanup",
     cleanup_all |-> "cleanupAllQueues",
     cleanup_help_channels |-> "cleanupHelpChannel",
     clear |-> "clear",
     clear_all |-> "clearAll",
     enqueue |-> "enqueue",
     leave |-> "leave",
     list_helpers |-> "listHelpers",
     next |-> "next",
     queue |-> "queue",
     set_after_session_msg |-> "setAfterSessionMessage",
     start |-> "start",
     stop |-> "stop",
     help |-> "help",
     set_logging_channel |-> "setLoggingChannel",
     stop_logging |-> "stopLogging",
     set_queue_auto_clear |-> "setQueueAutoClear"]

\* a name the command table has no entry for
UnlistedCommand == "unlisted"

CommandNames == DOMAIN commandMethodMap \cup {UnlistedCommand}

\* interaction.options.getSubcommand(), read by queue only
Subcommands == {"add", "remove", "other"}

\* What an interaction carries: [origin] whether interaction.guild.id is a
\* key of serverMap; [roles] the names of the roles of interaction.member;
\* [isMember] whether interaction.member is a GuildMember; [queueArgOk]
\* whether the channel it names, if any, is the category of a queue;
\* [placeOk] whether it was sent from outside the queue it targets;
\* [argOk] whether its other options and the state of the server pass the
\* check of the handler (a text channel, hours > 0, a known help topic,
\* a server with queues, a helper to list).  [logOk] and [opOk] are what
\* the log channel and the server answer: whether sendLogMessage and the
\* awaited method of the server resolve.
Interactions ==
    {i \in [commandName : CommandNames, subcommand : Subcommands \cup {"none"},
            origin : {"known", "unknown"}, roles : SUBSET RoleNames,
            isMember : BOOLEAN, queueArgOk : BOOLEAN, placeOk : BOOLEAN,
            argOk : BOOLEAN, logOk : BOOLEAN, opOk : BOOLEAN] :
        (i.subcommand # "none") <=> (i.commandName = "queue")}

UnknownOriginError == "I can only accept server based interactions."
CommandNotImplementedError == "This command does not exist."
MissingRoleError == "You need to have one of the required roles."
QueueArgumentError == "This is not a valid queue category."
NotGuildMemberError == "I can only accept server based interactions from members."
OtherChannelError == "Please use this command in another channel."
ClearPermissionError == "You do not have permission to clear this queue."
InvalidSubcommandError == "Invalid /queue subcommand."
HandlerCheckError == "The options of the command do not pass the check."
ServerError == "The server rejected the operation."
LogSinkError == "The log message was not sent."

\* isServerInteraction: rejects unless the guild id is a key of serverMap
IsServerInteraction(i) ==
    IF i.origin = "known" THEN NoError ELSE UnknownOriginError

\* a slip: the handlers of the helpers take any role, the role of a queue
\* too
RequiredRolesLax ==
    [h \in {commandMethodMap[n] : n \in DOMAIN commandMethodMap} |->
        IF h \in {"next", "start", "stop", "announce", "clear"}
        THEN RoleNames ELSE {"Bot Admin"}]

\* the role names each handler passes to isTriggeredByUserWithRoles; none
\* for the handlers that do not call it
RequiredRoles ==
    [queue |-> {"Bot Admin"},
     enqueue |-> {},
     next |-> {"Bot Admin", "Staff"},
     start |-> {"Bot Admin", "Staff"},
     stop |-> {"Bot Admin", "Staff"},
     leave |-> {},
     clear |-> {"Bot Admin", "Staff"},
     clearAll |-> {"Bot Admin"},
     listHelpers |-> {},
     announce |-> {"Bot Admin", "Staff"},
     cleanup |-> {"Bot Admin"},
     cleanupAllQueues |-> {"Bot Admin"},
     cleanupHelpChannel |-> {"Bot Admin"},
     setAfterSessionMessage |-> {"Bot Admin"},
     help |-> {},
     setLoggingChannel |-> {"Bot Admin"},
     setQueueAutoClear |-> {"Bot Admin"},
     stopLogging |-> {"Bot Admin"}]

\* isTriggeredByUserWithRoles: one of the required roles suffices
IsTriggeredByUserWithRoles(i, requiredRoles) ==
    IF requiredRoles \cap i.roles # {} THEN NoError ELSE MissingRoleError

HasValidQueueArgument(i) ==
    IF i.queueArgOk THEN NoError ELSE QueueArgumentError

IsFromGuildMember(i) ==
    IF i.isMember THEN NoError ELSE NotGuildMemberError

\* the validations each handler starts with, in the order of its
\* Promise.all; listHelpers awaits isServerInteraction alone, help none
Validations ==
    [queue |-> <<"isServerInteraction", "isTriggeredByUserWithRoles">>,
     enqueue |-> <<"isServerInteraction", "hasValidQueueArgument", "isFromGuildMember">>,
     next |-> <<"isServerInteraction", "isTriggeredByUserWithRoles">>,
     start |-> <<"isServerInteraction", "isTriggeredByUserWithRoles">>,
     stop |-> <<"isServerInteraction", "isTriggeredByUserWithRoles">>,
     leave |-> <<"isServerInteraction", "isFromGuildMember", "hasValidQueueArgument">>,
     clear |-> <<"isServerInteraction", "hasValidQueueArgument",
                 "isTriggeredByUserWithRoles">>,
     clearAll |-> <<"isServerInteraction", "isTriggeredByUserWithRoles">>,
     listHelpers |-> <<"isServerInteraction">>,
     announce |-> <<"isServerInteraction", "isTriggeredByUserWithRoles">>,
     cleanup |-> <<"isServerInteraction", "hasValidQueueArgument",
                   "isTriggeredByUserWithRoles">>,
     cleanupAllQueues |-> <<"isServerInteraction", "isTriggeredByUserWithRoles">>,
     cleanupHelpChannel |-> <<"isServerInteraction", "isTriggeredByUserWithRoles">>,
     setAfterSessionMessage |-> <<"isServerInteraction", "isTriggeredByUserWithRoles">>,
     help |-> <<>>,
     setLoggingChannel |-> <<"isServerInteraction", "isTriggeredByUserWithRoles">>,
     setQueueAutoClear |-> <<"isServerInteraction", "isTriggeredByUserWithRoles">>,
     stopLogging |-> <<"isServerInteraction", "isTriggeredByUserWithRoles">>]

Validate(validation, handler, i) ==
    CASE validation = "isServerInteraction" -> IsServerInteraction(i)
      [] validation = "isTriggeredByUserWithRoles" ->
             IsTriggeredByUserWithRoles(i, RequiredRoles[handler])
      [] validation = "hasValidQueueArgument" -> HasValidQueueArgument(i)
      [] validation = "isFromGuildMember" -> IsFromGuildMember(i)

\* Promise.all over the validations rejects with the rejection that settles
\* first: any of them, when more than one validation rejects
ValidationRejections(handler, i) ==
    {Validate(Validations[handler][k], handler, i) :
        k \in DOMAIN Validations[handler]} \ {NoError}

\* How a handler ends: [fault] the error it rejects with, [returns] "string"
\* for a success message and "undefined" when it wrote its reply itself,
\* [wrote] the replies it wrote, [serverOps] the methods of the server it
\* invoked.
Faulted(error, serverOps) ==
    [fault |-> error, returns |-> "nothing", wrote |-> <<>>, serverOps |-> serverOps]

Returned(returns, wrote, serverOps) ==
    [fault |-> NoError, returns |-> returns, wrote |-> wrote, serverOps |-> serverOps]

\* await this.serverMap.get(serverId)?.method(...); return message
Invoke(serverOps, i) ==
    IF i.opOk THEN Returned("string", <<>>, serverOps)
    ELSE Faulted(ServerError, serverOps)

HandlerReply == <<"SimpleEmbed", "the reply of the handler">>

\* a slip: the queue is deleted from whatever channel the command is sent
QueueRemoveAnywhere(i) ==
    IF ~i.queueArgOk THEN {Faulted(QueueArgumentError, <<>>)}
    ELSE {Invoke(<<"deleteQueueById">>, i)}

\* case 'remove' of queue: the target is looked up, the command must come
\* from a channel outside the category of the target, and
\* deleteQueueById is handed targetQueue.parentCategoryId
QueueRemove(i) ==
    IF ~i.queueArgOk THEN {Faulted(QueueArgumentError, <<>>)}
    ELSE IF ~i.placeOk THEN {Faulted(OtherChannelError, <<>>)}
    ELSE {Invoke(<<"deleteQueueById">>, i)}

\* a slip: Staff may clear any queue
ClearByStaff(i) ==
    IF i.roles \cap {"Staff", "Bot Admin"} = {}
    THEN {Faulted(ClearPermissionError, <<>>)}
    ELSE {Invoke(<<"clearQueue">>, i)}

\* clear after its validations: the member needs a role named as the queue
\* or Bot Admin
Clear(i) ==
    IF i.roles \cap {QueueName, "Bot Admin"} = {}
    THEN {Faulted(ClearPermissionError, <<>>)}
    ELSE {Invoke(<<"clearQueue">>, i)}

\* the handler after its validations resolved
HandlerBody(handler, i) ==
    CASE handler = "queue" ->
             IF i.subcommand = "add" THEN {Invoke(<<"createQueue">>, i)}
             ELSE IF i.subcommand = "remove" THEN QueueRemove(i)
             ELSE {Faulted(InvalidSubcommandError, <<>>)}
      [] handler = "enqueue" -> {Invoke(<<"enqueueStudent">>, i)}
      [] handler = "next" ->
             IF ~i.queueArgOk THEN {Faulted(QueueArgumentError, <<>>)}
             ELSE {Invoke(<<"dequeueWithArgs">>, i),
                   Invoke(<<"dequeueGlobalFirst">>, i)}
      [] handler = "start" -> {Invoke(<<"openAllOpenableQueues">>, i)}
      [] handler = "stop" -> {Invoke(<<"closeAllClosableQueues">>, i)}
      [] handler = "leave" -> {Invoke(<<"removeStudentFromQueue">>, i)}
      [] handler = "clear" -> Clear(i)
      [] handler = "clearAll" ->
             IF ~i.argOk THEN {Faulted(HandlerCheckError, <<"getQueueChannels">>)}
             ELSE {Invoke(<<"getQueueChannels", "clearAllQueues">>, i)}
      [] handler = "listHelpers" ->
             IF ~i.argOk THEN {Returned("undefined", <<HandlerReply>>, <<>>)}
             ELSE {Returned("undefined", <<HandlerReply>>, <<"getQueueChannels">>)}
      [] handler = "announce" ->
             IF ~i.queueArgOk THEN {Faulted(QueueArgumentError, <<>>)}
             ELSE {Invoke(<<"announceToStudentsInQueue">>, i)}
      [] handler = "cleanup" ->
             IF ~i.placeOk THEN {Faulted(OtherChannelError, <<>>)}
             ELSE {Invoke(<<"cleanUpQueue">>, i)}
      [] handler = "cleanupAllQueues" ->
             {Invoke(<<"getQueueChannels", "cleanUpQueue">>, i)}
      [] handler = "cleanupHelpChannel" ->
             {Invoke(<<"updateCommandHelpChannels">>, i)}
      [] handler = "setAfterSessionMessage" ->
             {Invoke(<<"setAfterSessionMessage">>, i)}
      [] handler = "help" ->
             IF ~i.argOk THEN {Faulted(HandlerCheckError, <<>>)}
             ELSE {Returned("undefined", <<HandlerReply>>, <<>>)}
      [] handler = "setLoggingChannel" ->
             IF ~i.argOk THEN {Faulted(HandlerCheckError, <<>>)}
             ELSE {Invoke(<<"setLoggingChannel">>, i)}
      [] handler = "setQueueAutoClear" ->
             IF ~i.argOk THEN {Faulted(HandlerCheckError, <<>>)}
             ELSE {Returned("string", <<>>, <<"setQueueAutoClear">>)}
      [] handler = "stopLogging" -> {Invoke(<<"setLoggingChannel">>, i)}

\* the ways the handler can end
HandlerOutcomes(handler, i) ==
    IF ValidationRejections(handler, i) # {}
    THEN {Faulted(error, <<>>) : error \in ValidationRejections(handler, i)}
    ELSE HandlerBody(handler, i)

ProgressEmbed == <<"SimpleEmbed", "Processing command...">>
SuccessEmbed == <<"SimpleEmbed", "successMsg">>
ErrorEmbed(error) == <<"ErrorEmbed", error>>

SlashCommandLogEmbed == <<"SlashCommandLogEmbed", NoError>>
ErrorLogEmbed(error) == <<"ErrorLogEmbed", error>>

\* How process ends: [settled] "rejected" when its promise rejects with
\* [fault]; [replies] what was written to the interaction, in order;
\* [logs] what was handed to sendLogMessage; [handler] the method invoked,
\* [handlerFault] the error it rejected with, [serverOps] the methods of
\* the server it invoked, [returns] what it resolved with when it did.
Processed(i, settled, fault, replies, logs, handler, handlerFault, serverOps) ==
    [entry |-> "process", interaction |-> i, settled |-> settled,
     fault |-> fault, replies |-> replies, logs |-> logs,
     handler |-> handler, handlerFault |-> handlerFault,
     serverOps |-> serverOps, returns |-> "nothing"]

\* editReply(ErrorEmbed(new CommandNotImplementedError(...))); return
OnMissingMethod(replies) == Append(replies, ErrorEmbed(CommandNotImplementedError))

\* a slip: the catch writes the error to the log and not to the requester
OnFaultLogOnly(replies, error) == replies

\* .catch: editReply(ErrorEmbed(err))
OnFault(replies, error) == Append(replies, ErrorEmbed(error))

\* a slip: .then edits the reply whatever the handler resolved with
OnSuccessAlways(replies, ended) == Append(replies \o ended.wrote, SuccessEmbed)

\* .then: successMsg && editReply(SimpleEmbed(successMsg, Success))
OnSuccess(replies, ended) ==
    IF ended.returns = "string" THEN Append(replies \o ended.wrote, SuccessEmbed)
    ELSE replies \o ended.wrote

\* the ways process(interaction) can end
ProcessOutcomes(i) ==
    IF IsServerInteraction(i) # NoError
    THEN {Processed(i, "rejected", IsServerInteraction(i), <<>>, <<>>,
                    "none", NoError, <<>>)}
    ELSE IF ~i.logOk
    THEN {Processed(i, "rejected", LogSinkError, <<ProgressEmbed>>,
                    <<SlashCommandLogEmbed>>, "none", NoError, <<>>)}
    ELSE IF i.commandName \notin DOMAIN commandMethodMap
    THEN {Processed(i, "resolved", NoError, OnMissingMethod(<<ProgressEmbed>>),
                    <<SlashCommandLogEmbed>>, "none", NoError, <<>>)}
    ELSE LET commandMethod == commandMethodMap[i.commandName]
         IN  {IF ended.fault = NoError
              THEN [Processed(i, "resolved", NoError,
                              OnSuccess(<<ProgressEmbed>>, ended),
                              <<SlashCommandLogEmbed>>, commandMethod, NoError,
                              ended.serverOps)
                       EXCEPT !.returns = ended.returns]
              ELSE Processed(i, "resolved", NoError,
                             OnFault(<<ProgressEmbed>>, ended.fault),
                             <<SlashCommandLogEmbed, ErrorLogEmbed(ended.fault)>>,
                             commandMethod, ended.fault, ended.serverOps)
                 : ended \in HandlerOutcomes(commandMethod, i)}

\* the interaction as it is handed to process
Received(entry, i) ==
    [entry |-> entry, interaction |-> i, settled |-> "pending",
     fault |-> NoError, replies |-> <<>>, logs |-> <<>>,
     handler |-> "none", handlerFault |-> NoError, serverOps |-> <<>>,
     returns |-> "nothing"]

Process ==
    /\ dispatch # <<>>
    /\ dispatch[1].entry = "process"
    /\ dispatch[1].settled = "pending"
    /\ \E ended \in ProcessOutcomes(dispatch[1].interaction) :
           dispatch' = <<ended>>
    /\ UNCHANGED <<helpers, students, notifGroup, isOpen, now, outcome,
                   given, pending, methodMaps>>

----------------------------------------------------------------------------
(* processChatInputCommand (src/unnamed/part_001), the entry point for chat
   commands that leaves the replies to the handlers *)

\* What processChatInputCommand reads: [inGuildChat] inCachedGuild() and
\* isChatInputCommand(); [hasMethod] whether methodMap[commandName] is
\* defined; [skipsProgress] whether skipProgressMessageCommands has the
\* name; [handlerEnds] how the handler, when there is one, ends: it wrote
\* its reply and resolved, it rejected, or it rejected after it wrote a
\* reply; [logOk] whether sendLogMessage resolves.
ChatInteractions ==
    [inGuildChat : BOOLEAN, hasMethod : BOOLEAN, skipsProgress : BOOLEAN,
     handlerEnds : {"replied", "rejected", "replied then rejected"},
     logOk : BOOLEAN]

HandlerFault == "The handler rejected."

ChatProcessed(i, replies, calls, logs, handler, handlerFault) ==
    [entry |-> "processChatInputCommand", interaction |-> i,
     settled |-> "resolved", fault |-> NoError, replies |-> replies,
     calls |-> calls, logs |-> logs, handler |-> handler,
     handlerFault |-> handlerFault, serverOps |-> <<>>]

\* what is written before the handler is looked at
ProgressReplies(i) == IF i.skipsProgress THEN <<>> ELSE <<ProgressEmbed>>

ProgressCalls(i) == IF i.skipsProgress THEN <<>> ELSE <<"reply">>

\* a slip: the error is always sent as a first reply
ReplyWithErrorAlwaysReply(replies) == "reply"

\* replyWithError: editReply when the interaction was replied to, else reply
ReplyWithErrorCall(replies) == IF replies # <<>> THEN "editReply" ELSE "reply"

\* how processChatInputCommand(interaction) ends
ChatOutcome(i) ==
    IF ~i.inGuildChat THEN ChatProcessed(i, <<>>, <<>>, <<>>, "none", NoError)
    ELSE IF ~i.hasMethod
    THEN ChatProcessed(i, ProgressReplies(i), ProgressCalls(i),
                       <<SlashCommandLogEmbed>>, "none", NoError)
    ELSE LET wrote == IF i.handlerEnds = "rejected" THEN <<>> ELSE <<HandlerReply>>
             wroteBy == IF i.handlerEnds = "rejected" THEN <<>> ELSE <<"handler">>
             replies == ProgressReplies(i) \o wrote
             calls == ProgressCalls(i) \o wroteBy
         IN  IF i.handlerEnds = "replied"
             THEN ChatProcessed(i, replies, calls, <<SlashCommandLogEmbed>>,
                                "handleCommand", NoError)
             ELSE ChatProcessed(i, Append(replies, ErrorEmbed(HandlerFault)),
                                Append(calls, ReplyWithErrorCall(replies)),
                                <<SlashCommandLogEmbed>>, "handleCommand",
                                HandlerFault)

ProcessChatInputCommand ==
    /\ dispatch # <<>>
    /\ dispatch[1].entry = "processChatInputCommand"
    /\ dispatch[1].settled = "pending"
    /\ dispatch' = <<ChatOutcome(dispatch[1].interaction)>>
    /\ UNCHANGED <<helpers, students, notifGroup, isOpen, now, outcome,
                   given, pending, methodMaps>>

----------------------------------------------------------------------------
\* The dispatcher with one interaction, any of them, handed to one of its
\* entry points: the server it belongs to holds a queue constructed without
\* a backup.
InitDispatch ==
    /\ helpers = <<>>
    /\ students = <<>>
    /\ notifGroup = {}
    /\ isOpen = FALSE
    /\ now = 0
    /\ outcome = Settled("constructor", "none", <<>>, <<>>, {}, {}, TRUE, "ok")
    /\ given = <<>>
    /\ pending = <<>>
    /\ methodMaps = <<>>
    /\ \/ \E i \in Interactions : dispatch = <<Received("process", i)>>
       \/ \E i \in ChatInteractions :
              dispatch = <<Received("processChatInputCommand", i)>>

NextDispatch ==
    \/ Process
    \/ ProcessChatInputCommand

SpecDispatch == InitDispatch /\ [][NextDispatch]_vars

----------------------------------------------------------------------------
(* combineMethodMaps (src/unnamed/part_001), called once when the module is
   loaded.  A table is an object from ids to handlers; a handler is named by
   the source that contributed it, 0 for base yabob and i for the i-th
   interaction extension.  Every sub-table is merged by the same expression,
   so one sub-table is followed at a time. *)

\* the interaction extensions registered at startup
MaxExtensions == 2

\* the command names and component ids a table can have as keys
HandlerIds == {"id1", "id2", "id3"}

\* the sub-tables of the four handler props
SubTables ==
    {"commandMap.methodMap",
     "buttonMap.guildMethodMap.queue", "buttonMap.guildMethodMap.other",
     "buttonMap.dmMethodMap",
     "selectMenuMap.guildMethodMap.queue", "selectMenuMap.guildMethodMap.other",
     "selectMenuMap.dmMethodMap",
     "modalMap.guildMethodMap.queue", "modalMap.guildMethodMap.other",
     "modalMap.dmMethodMap"}

\* the tables one source can contribute
TablesOf(source) == UNION {[ids -> {source}] : ids \in SUBSET HandlerIds}

\* the arrays of extensions combineMethodMaps can be handed, each extension
\* as the sub-table it contributes
InteractionExtensions ==
    UNION {{extensions \in [1..n -> UNION {TablesOf(i) : i \in 1..n}] :
               \A i \in 1..n : extensions[i] \in TablesOf(i)} :
           n \in 0..MaxExtensions}

\* Object.assign(target, source) and the spread {...target, ...source}:
\* the entries of target, then those of source over them
ObjectAssign(target, source) ==
    [id \in DOMAIN target \cup DOMAIN source |->
        IF id \in DOMAIN source THEN source[id] ELSE target[id]]

\* a slip: reduce((prev, curr) => curr)
ReduceLast(prev, rest) ==
    IF rest = <<>> THEN prev ELSE rest[Len(rest)]

\* maps.reduce((prev, curr) => Object.assign(prev, curr)) without an
\* initial value: prev starts as the first map, which every step writes to
RECURSIVE ReduceAssign(_, _)
ReduceAssign(prev, rest) ==
    IF rest = <<>> THEN prev
    ELSE ReduceAssign(ObjectAssign(prev, Head(rest)), Tail(rest))

\* The tables before the call: [given] keeps what base and the extensions
\* held when combineMethodMaps was called.
Loaded(subTable, base, extensions) ==
    [subTable |-> subTable, base |-> base, extensions |-> extensions,
     given |-> [base |-> base, extensions |-> extensions],
     returned |-> FALSE, combined |-> <<>>]

\* With no extension the base tables are returned.  Otherwise the reduce
\* leaves its result in the table of the first extension, and the spread
\* copies base and then that result into a new object.
CombineMethodMaps ==
    /\ methodMaps # <<>>
    /\ ~methodMaps[1].returned
    /\ LET base == methodMaps[1].base
           extensions == methodMaps[1].extensions
       IN  IF Len(extensions) = 0
           THEN methodMaps' = <<[methodMaps[1] EXCEPT !.returned = TRUE,
                                                       !.combined = base]>>
           ELSE LET reduced == ReduceAssign(Head(extensions), Tail(extensions))
                IN  methodMaps' =
                        <<[methodMaps[1] EXCEPT
                              !.returned = TRUE,
                              !.extensions = [extensions EXCEPT ![1] = reduced],
                              !.combined = ObjectAssign(base, reduced)]>>
    /\ UNCHANGED <<helpers, students, notifGroup, isOpen, now, outcome,
                   given, pending, dispatch>>

\* The module at load time, with any base table and any extensions.
InitCombine ==
    /\ helpers = <<>>
    /\ students = <<>>
    /\ notifGroup = {}
    /\ isOpen = FALSE
    /\ now = 0
    /\ outcome = Settled("none", "none", <<>>, <<>>, {}, {}, TRUE, "none")
    /\ given = <<>>
    /\ pending = <<>>
    /\ dispatch = <<>>
    /\ \E subTable \in SubTables, base \in TablesOf(0),
          extensions \in InteractionExtensions :
           methodMaps = <<Loaded(subTable, base, extensions)>>

SpecCombine == InitCombine /\ [][CombineMethodMaps]_vars

----------------------------------------------------------------------------
(* Properties of the queue *)

LineMembers(line) == {line[i].member : i \in DOMAIN line}

\* C1: after every completed call, resolved or rejected, isOpen is true
\* exactly when the helper collection is not empty.
C1_OpenIffHelpers == isOpen <=> (Len(helpers) > 0)

\* a closeQueue rejected by a failing hook left one of two helpers behind
C1_Witness ==
    /\ outcome.op = "closeQueue"
    /\ outcome.error = CollaboratorError
    /\ Len(helpers) = 1
    /\ isOpen

\* C2: no member is at once a key of the helper collection and in the
\* waiting line.
C2_NoHelperInLine == \A m \in Members : ~(CollHas(helpers, m) /\ InLine(m))

C4_DequeueTakesEarliest ==
    [][(outcome'.op = "dequeueWithHelper" /\ outcome'.status = "resolved"
            /\ now' = now) =>
         LET h == outcome'.who
             removed == outcome'.student[1]
         IN  /\ Len(students) > 0
             /\ removed = students[1]
             /\ \A i \in DOMAIN students : removed.waitStart <= students[i].waitStart
             /\ Len(students') = Len(students) - 1
             /\ students' = Tail(students)
             /\ CollKeys(helpers') = CollKeys(helpers)
             /\ CollGet(helpers', h).helpedMembers =
                    Append(CollGet(helpers, h).helpedMembers, removed.member)
             /\ \A g \in CollKeys(helpers) \ {h} :
                    CollGet(helpers', g) = CollGet(helpers, g)]_vars

\* the requester who waited longest was handed to one of two helpers and a
\* later one still waits
C4_Witness ==
    /\ outcome.op = "dequeueWithHelper"
    /\ outcome.status = "resolved"
    /\ Len(helpers) = 2
    /\ Len(students) >= 1
    /\ outcome.student[1].waitStart < students[1].waitStart

\* C5: each resolved enqueue puts its requester behind every requester
\* already waiting and moves none of them, so the line lists the requesters
\* in the order of the calls.
C5_EnqueueKeepsCallOrder ==
    [][(outcome'.op = "enqueue" /\ outcome'.status = "resolved") =>
         /\ Len(students') = Len(students) + 1
         /\ SubSeq(students', 1, Len(students)) = students
         /\ students'[Len(students')].member = outcome'.who]_vars

\* a second requester joined behind the first, neither of them a helper
C5_Witness ==
    /\ outcome.op = "enqueue"
    /\ outcome.status = "resolved"
    /\ Len(students) = 2
    /\ students[2].member = outcome.who
    /\ LineMembers(students) \cap CollKeys(helpers) = {}

\* C6: enqueue(p) is rejected and changes nothing when the queue is closed,
\* p already waits, or p is a helper of the queue; no call adds a requester
\* to the line of a closed queue.
C6_EnqueueRejected ==
    [][/\ (outcome'.op = "enqueue"
              /\ (~isOpen \/ InLine(outcome'.who) \/ CollHas(helpers, outcome'.who)))
           => /\ outcome'.status = "rejected"
              /\ outcome'.error # CollaboratorError
              /\ UNCHANGED <<helpers, students, notifGroup, isOpen>>
       /\ (LineMembers(students') \ LineMembers(students) # {}) => isOpen]_vars

\* a helper of the queue was turned down
C6_Witness ==
    /\ outcome.op = "enqueue"
    /\ outcome.status = "rejected"
    /\ outcome.error = "You cannot enqueue yourself while helping."
    /\ CollHas(helpers, outcome.who)
    /\ ~InLine(outcome.who)

\* C7: openQueue(h) by a member who is a helper already is rejected and
\* leaves every helper record, that of h with its helpStart and
\* helpedMembers included, as it was; the collection never holds two
\* records of one member.
C7_OpenTwiceRejected ==
    /\ [](\A i, j \in DOMAIN helpers :
             helpers[i].member = helpers[j].member => i = j)
    /\ [][(outcome'.op = "openQueue" /\ now' = now
              /\ CollHas(helpers, outcome'.who)) =>
            /\ outcome'.status = "rejected"
            /\ outcome'.error = "Queue is already open"
            /\ Len(helpers') = Len(helpers)
            /\ CollGet(helpers', outcome'.who) = CollGet(helpers, outcome'.who)
            /\ UNCHANGED <<helpers, students, notifGroup, isOpen>>]_vars

\* the second openQueue of a helper who started earlier and has served
\* someone was turned down
C7_Witness ==
    /\ outcome.op = "openQueue"
    /\ outcome.status = "rejected"
    /\ CollHas(helpers, outcome.who)
    /\ CollGet(helpers, outcome.who).helpStart < now
    /\ Len(CollGet(helpers, outcome.who).helpedMembers) > 0

\* C8: a resolved closeQueue(h) leaves isOpen false when h was the only
\* helper and true when another helper remains.
C8_CloseSetsIsOpen ==
    [][(outcome'.op = "closeQueue" /\ outcome'.status = "resolved") =>
         /\ CollHas(helpers, outcome'.who)
         /\ (CollKeys(helpers) = {outcome'.who}) => ~isOpen'
         /\ (CollKeys(helpers) \ {outcome'.who} # {}) => isOpen']_vars

\* one of two helpers closed and the queue is still open
C8_Witness ==
    /\ outcome.op = "closeQueue"
    /\ outcome.status = "resolved"
    /\ Len(helpers) = 1
    /\ isOpen

\* C9: dequeueWithHelper on an open queue with nobody waiting is rejected
\* with the empty-queue error, whoever calls and however often; helpers,
\* helpedMembers, line and isOpen stay as they were and no hook, notice or
\* render is launched.
C9_DequeueEmptyRejected ==
    [][(outcome'.op = "dequeueWithHelper" /\ isOpen /\ Len(students) = 0) =>
         /\ outcome'.status = "rejected"
         /\ outcome'.error = "There is no one in the queue"
         /\ outcome'.student = <<>>
         /\ outcome'.hooks = {}
         /\ outcome'.notified = {}
         /\ outcome'.render = "none"
         /\ UNCHANGED <<helpers, students, notifGroup, isOpen>>]_vars

\* a member who is no helper got the empty-queue error from an open queue
C9_Witness ==
    /\ outcome.op = "dequeueWithHelper"
    /\ outcome.error = "There is no one in the queue"
    /\ isOpen
    /\ ~CollHas(helpers, outcome.who)
    /\ \E h \in Members : CollHas(helpers, h) /\ CollGet(helpers, h).helpedMembers # <<>>

\* C10 as stated: the record a resolved closeQueue returns has helpEnd later
\* than helpStart.
C10_HelpEndLater ==
    (outcome.op = "closeQueue" /\ outcome.status = "resolved") =>
        outcome.helper[1].helpEnd > outcome.helper[1].helpStart

\* C10 amended: an openQueue(h) that passes its check stores a fresh record
\* with helpStart the clock reading of the call and no helpedMembers; while
\* h helps, helpStart stays and helpedMembers grows only by the member a
\* dequeueWithHelper(h) returns; a resolved closeQueue(h) returns that
\* record with helpEnd the clock reading of the call, not earlier than
\* helpStart.
C10_ClosedRecord ==
    /\ [][(outcome'.op = "openQueue" /\ outcome'.status = "resolved"
              /\ now' = now) =>
            CollGet(helpers', outcome'.who) =
                [helpStart |-> now, helpedMembers |-> <<>>,
                 member |-> outcome'.who]]_vars
    /\ [][\A g \in CollKeys(helpers) \cap CollKeys(helpers') :
            /\ CollGet(helpers', g).helpStart = CollGet(helpers, g).helpStart
            /\ CollGet(helpers', g).helpedMembers =
                 IF outcome'.op = "dequeueWithHelper" /\ outcome'.who = g
                    /\ outcome'.status = "resolved" /\ now' = now
                 THEN Append(CollGet(helpers, g).helpedMembers,
                             outcome'.student[1].member)
                 ELSE CollGet(helpers, g).helpedMembers]_vars
    /\ [][(outcome'.op = "closeQueue" /\ outcome'.status = "resolved"
              /\ now' = now) =>
            LET before == CollGet(helpers, outcome'.who)
                closed == outcome'.helper[1]
            IN  /\ CollHas(helpers, outcome'.who)
                /\ ~CollHas(helpers', outcome'.who)
                /\ closed.member = outcome'.who
                /\ closed.helpStart = before.helpStart
                /\ closed.helpedMembers = before.helpedMembers
                /\ closed.helpEnd = now
                /\ closed.helpEnd >= closed.helpStart]_vars

\* a helper who served two members in turn closed after the clock moved on
C10_Witness ==
    /\ outcome.op = "closeQueue"
    /\ outcome.status = "resolved"
    /\ Len(outcome.helper[1].helpedMembers) = 2
    /\ outcome.helper[1].helpedMembers[1] # outcome.helper[1].helpedMembers[2]
    /\ outcome.helper[1].helpEnd > outcome.helper[1].helpStart

\* C11: removeAllStudents empties the waiting line without condition: open
\* or closed, whatever the line held and whatever the onRemoveAllStudents
\* hooks answer, the call reports no error and leaves the line empty.
C11_ClearAlwaysEmpties ==
    outcome.op = "removeAllStudents" =>
        /\ outcome.status = "resolved"
        /\ outcome.error = NoError
        /\ students = <<>>

\* C12: addToNotifGroup(p) resolves exactly when p is not in the
\* notification group and removeFromNotifGroup(p) exactly when p is in it;
\* a rejected call leaves the group as it was; a resolved addToNotifGroup(p)
\* leaves a group from which removeFromNotifGroup(p) gives back the group
\* there was before the two calls.
C12_NotifGroupCalls ==
    [][/\ outcome'.op = "addToNotifGroup" =>
             LET p == outcome'.who
             IN  /\ (outcome'.status = "resolved") <=> (p \notin notifGroup)
                 /\ outcome'.status = "rejected" => notifGroup' = notifGroup
                 /\ outcome'.status = "resolved" =>
                        /\ p \in notifGroup'
                        /\ notifGroup' \ {p} = notifGroup
       /\ outcome'.op = "removeFromNotifGroup" =>
             LET p == outcome'.who
             IN  /\ (outcome'.status = "resolved") <=> (p \in notifGroup)
                 /\ outcome'.status = "rejected" => notifGroup' = notifGroup
                 /\ outcome'.status = "resolved" =>
                        notifGroup' = notifGroup \ {p}
       /\ (/\ outcome.op = "addToNotifGroup"
           /\ outcome.status = "resolved"
           /\ outcome'.op = "removeFromNotifGroup"
           /\ outcome'.who = outcome.who) =>
             /\ outcome'.status = "resolved"
             /\ outcome.who \notin notifGroup'
             /\ notifGroup' \cup {outcome.who} = notifGroup]_vars

\* a member left a group of two right after joining it: the other member is
\* still subscribed
C12_Witness ==
    /\ outcome.op = "removeFromNotifGroup"
    /\ outcome.status = "resolved"
    /\ Cardinality(notifGroup) = 1
    /\ outcome.who \notin notifGroup

\* C13: a queue constructed from backup data starts with a line that is a
\* subsequence of the backed-up list in the same order: it holds exactly the
\* entries whose memberId is a member of the channel, each with its
\* waitStart and upNext as backed up; the other entries are dropped and no
\* error is reported.
C13_RestoredLine ==
    (outcome.op = "constructor" /\ given # <<>>) =>
        LET b == given[1].backupData
            resolved == {i \in DOMAIN b : b[i].memberId \in given[1].channelMembers}
        IN  /\ outcome.status = "resolved"
            /\ Len(students) = Cardinality(resolved)
            /\ \A k \in DOMAIN students :
                   \E i \in resolved :
                       /\ Cardinality({j \in resolved : j <= i}) = k
                       /\ students[k].member = b[i].memberId
                       /\ students[k].waitStart = b[i].waitStart
                       /\ students[k].upNext = b[i].upNext

\* the first of two backed-up requesters, the one marked upNext, has left
\* the channel: the line starts with the second alone
C13_Witness ==
    /\ outcome.op = "constructor"
    /\ given # <<>>
    /\ Len(given[1].backupData) = 2
    /\ given[1].backupData[1].upNext
    /\ given[1].backupData[1].memberId \notin given[1].channelMembers
    /\ Len(students) = 1
    /\ students[1].member = given[1].backupData[2].memberId
    /\ students[1].waitStart = 1

\* C14: the calls that change one queue do not interleave at their awaits:
\* the requesters a removeAllStudents takes out of the line are exactly
\* those it handed to the onRemoveAllStudents hooks, so a requester whose
\* enqueue inserted it meanwhile is never wiped without having been handed
\* to the hooks.
C14_ClearRemovesSnapshot ==
    [][(/\ outcome'.op = "removeAllStudents"
        /\ outcome'.status = "resolved"
        /\ Len(pending') < Len(pending)) =>
          \E i \in DOMAIN pending :
              /\ pending[i].op = "removeAllStudents"
              /\ pending' = Splice1(pending, i)
              /\ pending[i].passed = students]_vars

----------------------------------------------------------------------------
(* Properties of the dispatcher *)

\* the interaction process has handled to its end
Handled == dispatch # <<>> /\ dispatch[1].entry = "process"
               /\ dispatch[1].settled # "pending"

ErrorReplies(replies) == {k \in DOMAIN replies : replies[k][1] = "ErrorEmbed"}

\* C15: an interaction whose guild is not a key of serverMap makes process
\* fail with the error of isServerInteraction, which the requester is told
\* in exactly one reply, and the promise of process does not reject.
C15_UnknownOriginAnswered ==
    (Handled /\ dispatch[1].interaction.origin = "unknown") =>
        /\ dispatch[1].settled = "resolved"
        /\ Cardinality(ErrorReplies(dispatch[1].replies)) = 1
        /\ \A k \in ErrorReplies(dispatch[1].replies) :
               dispatch[1].replies[k] = ErrorEmbed(UnknownOriginError)

\* the interaction processChatInputCommand has handled to its end
HandledChat == dispatch # <<>> /\ dispatch[1].entry = "processChatInputCommand"
                   /\ dispatch[1].settled # "pending"

\* C16: every chat command handed to processChatInputCommand ends with an
\* outcome the requester sees, the reply of the handler or an error reply;
\* a command name without an entry in the command table is answered with an
\* error reply and is not dropped after the progress message.
C16_ChatCommandAnswered ==
    (HandledChat /\ dispatch[1].interaction.inGuildChat) =>
        LET replies == dispatch[1].replies
        IN  /\ dispatch[1].settled = "resolved"
            /\ replies # <<>>
            /\ \/ replies[Len(replies)] = HandlerReply
               \/ replies[Len(replies)][1] = "ErrorEmbed"
            /\ ~dispatch[1].interaction.hasMethod =>
                   replies[Len(replies)][1] = "ErrorEmbed"

SuccessReplies(replies) == {k \in DOMAIN replies : replies[k] = SuccessEmbed}

C18_UnlistedCommandAnswered ==
    (/\ Handled
     /\ dispatch[1].interaction.origin = "known"
     /\ dispatch[1].interaction.commandName \notin DOMAIN commandMethodMap) =>
        LET replies == dispatch[1].replies
        IN  /\ dispatch[1].settled = "resolved"
            /\ Cardinality(ErrorReplies(replies)) = 1
            /\ replies[Len(replies)] = ErrorEmbed(CommandNotImplementedError)
            /\ SuccessReplies(replies) = {}
            /\ dispatch[1].handler = "none"
            /\ dispatch[1].serverOps = <<>>

\* the commands whose handler asks for the Bot Admin role and no other
BotAdminCommands ==
    {"queue", "clear_all", "cleanup_queue", "cleanup_all",
     "cleanup_help_channels", "set_after_session_msg", "set_logging_channel",
     "stop_logging", "set_queue_auto_clear"}

\* C19: an interaction of a known server for a command of the Bot Admin
\* alone, sent by a member without that role, fails with the error of the
\* role check, which the requester is told, and no method of the server
\* is invoked for it.
C19_BotAdminOnly ==
    (/\ Handled
     /\ dispatch[1].interaction.origin = "known"
     /\ dispatch[1].interaction.commandName \in BotAdminCommands
     /\ "Bot Admin" \notin dispatch[1].interaction.roles) =>
        /\ dispatch[1].serverOps = <<>>
        /\ dispatch[1].handlerFault = MissingRoleError
        /\ dispatch[1].replies = <<ProgressEmbed, ErrorEmbed(MissingRoleError)>>

\* the commands of the helpers and the commands every member may use
HelperCommands == {"next", "start", "stop", "announce", "clear"}

SelfServiceCommands == {"enqueue", "leave", "list_helpers", "help"}

\* C20: the roles a command asks for are fixed.  A method of the server is
\* invoked for next, start, stop, announce and clear only when the
\* requester holds Bot Admin or Staff.  enqueue, leave, list_helpers and
\* help check no role: the interaction ends the same way whatever roles
\* its member holds, and enqueue and leave by a member of the server who
\* names a queue reach the method of the server.
C20_RolePerCommand ==
    Handled =>
        LET i == dispatch[1].interaction
        IN  /\ (i.commandName \in HelperCommands /\ dispatch[1].serverOps # <<>>) =>
                   i.roles \cap {"Bot Admin", "Staff"} # {}
            /\ i.commandName \in SelfServiceCommands =>
                   \A roles \in SUBSET RoleNames :
                       \E ended \in ProcessOutcomes([i EXCEPT !.roles = roles]) :
                           [ended EXCEPT !.interaction = i] = dispatch[1]
            /\ (/\ i.commandName \in {"enqueue", "leave"}
                /\ dispatch[1].handler # "none"
                /\ i.isMember /\ i.queueArgOk) =>
                   Len(dispatch[1].serverOps) = 1

\* a helper who holds Staff alone has called next and was given a student
C20_Witness ==
    /\ Handled
    /\ dispatch[1].interaction.commandName = "next"
    /\ dispatch[1].interaction.roles = {"Staff"}
    /\ dispatch[1].serverOps = <<"dequeueGlobalFirst">>
    /\ SuccessReplies(dispatch[1].replies) # {}

C22_LogSinkFailureHarmless ==
    /\ (/\ Handled
        /\ dispatch[1].interaction.origin = "known"
        /\ ~dispatch[1].interaction.logOk) =>
           LET replies == dispatch[1].replies
           IN  /\ dispatch[1].settled = "resolved"
               /\ dispatch[1].interaction.commandName \in DOMAIN commandMethodMap =>
                      /\ dispatch[1].handler # "none"
                      /\ replies[Len(replies)] # ProgressEmbed
    /\ (/\ HandledChat
        /\ dispatch[1].interaction.inGuildChat
        /\ ~dispatch[1].interaction.logOk) =>
           /\ dispatch[1].settled = "resolved"
           /\ dispatch[1].interaction.hasMethod =>
                  dispatch[1].handler # "none"

\* C23: an enqueue that passed its checks completes successfully, with the
\* requester in the waiting line and a re-render asked for, also when the
\* notice to a helper could not be delivered or an onEnqueue hook of an
\* extension failed; only a failing renderer can make it reject.
C23_EnqueueSurvivesFanOut ==
    (outcome.op = "enqueue" /\ outcome.hooks # {}) =>
        /\ InLine(outcome.who)
        /\ outcome.render # "none"
        /\ outcome.render # "failed" => outcome.status = "resolved"

\* C24: openQueue and enqueue go on to their re-render, and return, only
\* after every notice they sent and every extension hook they launched has
\* settled, whether it completed or failed.
C24_FanOutAwaited ==
    (/\ outcome.op \in {"openQueue", "enqueue"}
     /\ outcome.notified \cup outcome.hooks # {}) =>
        outcome.awaited = "all"

\* the hook of the extensions that belongs to each call
HookOf ==
    [openQueue |-> "onQueueOpen", closeQueue |-> "onQueueClose",
     enqueue |-> "onEnqueue", dequeueWithHelper |-> "onDequeue",
     removeStudent |-> "onStudentRemove",
     removeAllStudents |-> "onRemoveAllStudents"]

\* C25: every open, close, enqueue, dequeue, remove and clear that passed
\* its checks calls its hook on every attached extension, and an enqueue
\* sends its notice to every helper, one each, whether or not one of the
\* other hooks or sends fails.
C25_FanOutReachesAll ==
    (/\ outcome.op \in DOMAIN HookOf
     /\ outcome.status = "resolved" \/ outcome.error = CollaboratorError) =>
        /\ outcome.hooks = {<<extension, HookOf[outcome.op]>> :
                               extension \in queueExtensions}
        /\ outcome.op = "enqueue" => outcome.notified = CollKeys(helpers)

\* an enqueue with two helpers whose fan-out had a failure: both helpers
\* were sent the notice and both extensions were called
C25_Witness ==
    /\ outcome.op = "enqueue"
    /\ outcome.error = CollaboratorError
    /\ outcome.awaited # "all"
    /\ Cardinality(outcome.notified) = 2
    /\ Cardinality(outcome.hooks) = 2

\* the view model of the queue as it is now
CurrentViewModel ==
    [helperIDs |-> [i \in DOMAIN helpers |-> helpers[i].member],
     studentDisplayNames |-> [i \in DOMAIN students |-> students[i].member],
     isOpen |-> isOpen]

C34_QueueRemovePlace ==
    (/\ Handled
     /\ dispatch[1].handler = "queue"
     /\ dispatch[1].interaction.subcommand = "remove"
     /\ dispatch[1].interaction.queueArgOk) =>
        LET i == dispatch[1].interaction
        IN  /\ ~i.placeOk =>
                   /\ dispatch[1].serverOps = <<>>
                   /\ dispatch[1].handlerFault \in {OtherChannelError, MissingRoleError}
                   /\ "Bot Admin" \in i.roles =>
                          /\ dispatch[1].handlerFault = OtherChannelError
                          /\ dispatch[1].replies =
                                 <<ProgressEmbed, ErrorEmbed(OtherChannelError)>>
            /\ (i.placeOk /\ "Bot Admin" \in i.roles) =>
                   dispatch[1].serverOps = <<"deleteQueueById">>

\* a Bot Admin sent queue remove from a channel of the queue it names
C34_Witness ==
    /\ Handled
    /\ dispatch[1].handler = "queue"
    /\ dispatch[1].interaction.subcommand = "remove"
    /\ dispatch[1].interaction.queueArgOk
    /\ ~dispatch[1].interaction.placeOk
    /\ dispatch[1].interaction.roles = {"Bot Admin"}
    /\ dispatch[1].handlerFault = OtherChannelError
    /\ dispatch[1].serverOps = <<>>

\* C35: clear reaches clearQueue of the server only for a requester who
\* holds Bot Admin, or Staff together with a role named as the queue; a
\* Staff member without the role of the queue is rejected, with the error
\* of the permission to clear when the queue named exists, and clearQueue
\* is not invoked.
C35_ClearPermission ==
    (Handled /\ dispatch[1].handler = "clear") =>
        LET i == dispatch[1].interaction
        IN  /\ dispatch[1].serverOps # <<>> =>
                   /\ dispatch[1].serverOps = <<"clearQueue">>
                   /\ \/ "Bot Admin" \in i.roles
                      \/ {"Staff", QueueName} \subseteq i.roles
            /\ i.roles = {"Staff"} =>
                   /\ dispatch[1].serverOps = <<>>
                   /\ dispatch[1].handlerFault # NoError
                   /\ dispatch[1].replies =
                          <<ProgressEmbed, ErrorEmbed(dispatch[1].handlerFault)>>
                   /\ i.queueArgOk =>
                          dispatch[1].handlerFault = ClearPermissionError

\* a Staff member without the role of the queue asked to clear it
C35_Witness ==
    /\ Handled
    /\ dispatch[1].handler = "clear"
    /\ dispatch[1].interaction.roles = {"Staff"}
    /\ dispatch[1].interaction.queueArgOk
    /\ dispatch[1].handlerFault = ClearPermissionError
    /\ dispatch[1].serverOps = <<>>

\* C36: processChatInputCommand sends the processing reply, before the
\* handler is invoked, exactly for the command names that are not in
\* skipProgressMessageCommands, and for a name in that set writes nothing
\* of its own before the handler; when the handler rejects it sends one
\* error message, as an edit when the interaction has a reply already and
\* as a first reply otherwise.
C36_ProgressThenOneError ==
    (HandledChat /\ dispatch[1].interaction.inGuildChat) =>
        LET i == dispatch[1].interaction
            replies == dispatch[1].replies
            calls == dispatch[1].calls
            progress == {k \in DOMAIN replies : replies[k] = ProgressEmbed}
        IN  /\ Len(calls) = Len(replies)
            /\ progress = IF i.skipsProgress THEN {} ELSE {1}
            /\ ~i.skipsProgress => calls[1] = "reply"
            /\ \A k \in DOMAIN calls :
                   calls[k] = "handler" => progress \subseteq 1..(k - 1)
            /\ dispatch[1].handlerFault = NoError => ErrorReplies(replies) = {}
            /\ dispatch[1].handlerFault # NoError =>
                   /\ ErrorReplies(replies) = {Len(replies)}
                   /\ replies[Len(replies)] = ErrorEmbed(dispatch[1].handlerFault)
                   /\ calls[Len(calls)] =
                          IF Len(replies) > 1 THEN "editReply" ELSE "reply"

\* a command that skips the processing reply was rejected by its handler
\* before any reply: the error went out as the first reply
C36_Witness ==
    /\ HandledChat
    /\ dispatch[1].interaction.skipsProgress
    /\ dispatch[1].interaction.handlerEnds = "rejected"
    /\ dispatch[1].handler = "handleCommand"
    /\ dispatch[1].calls = <<"reply">>
    /\ dispatch[1].replies = <<ErrorEmbed(HandlerFault)>>

\* C37: at most one requester in the waiting line has upNext true, and
\* that requester stands at the head of the line; upNext is written when
\* the requester is inserted and never after, so a requester who comes to
\* the head later keeps upNext false.
C37_UpNextOnlyAtInsertion ==
    /\ [](\A k \in DOMAIN students : students[k].upNext => k = 1)
    /\ [][\A k \in DOMAIN students : \A j \in DOMAIN students' :
              students'[j].member = students[k].member =>
                  students'[j].upNext = students[k].upNext]_vars

\* a helper took the head of the line: the requester now at the head was
\* inserted behind and is not marked
C37_Witness ==
    /\ outcome.op = "dequeueWithHelper"
    /\ outcome.status = "resolved"
    /\ outcome.student[1].upNext
    /\ Len(students) = 2
    /\ ~students[1].upNext
    /\ ~students[2].upNext

\* C38: closeQueue leaves the waiting line as it is, also when the last
\* helper leaves; while the queue is closed no requester can be dequeued;
\* openQueue leaves the line as it is, and a dequeue takes the head, so
\* the requesters who waited through the closure are helped in the order
\* they had.
C38_CloseKeepsLine ==
    [][/\ outcome'.op \in {"closeQueue", "openQueue"} => students' = students
       /\ (outcome'.op = "dequeueWithHelper" /\ ~isOpen) =>
              /\ outcome'.status = "rejected"
              /\ outcome'.error = "This queue is not open."
              /\ students' = students
       /\ (outcome'.op = "dequeueWithHelper" /\ students' # students) =>
              /\ students' = Tail(students)
              /\ outcome'.status = "resolved" =>
                     outcome'.student = <<Head(students)>>]_vars

\* the last helper has closed the queue and the two requesters who
\* waited are in the line still
C38_Witness ==
    /\ outcome.op = "closeQueue"
    /\ outcome.status = "resolved"
    /\ helpers = <<>>
    /\ ~isOpen
    /\ Len(students) = 2

\* C39: however enqueue and dequeueWithHelper calls interleave at their
\* awaits, a dequeue that passes its checks takes the head out of the line
\* and records it with its own helper and no other, and the call returns
\* that requester when it ends, the line and the helpers as they were; no
\* member is in the line twice, so an entry of the line is handed out once
\* and concurrent enqueues of one member add it once.
C39_OneDequeuePerStay ==
    /\ [](\A i, j \in DOMAIN students :
              students[i].member = students[j].member => i = j)
    /\ [][/\ (/\ Len(pending') > Len(pending)
               /\ pending'[Len(pending')].op = "dequeueWithHelper") =>
                  LET call == pending'[Len(pending')]
                  IN  /\ students = call.passed \o students'
                      /\ \A i \in DOMAIN helpers :
                             helpers'[i] =
                                 IF helpers[i].member = call.who
                                 THEN [helpers[i] EXCEPT !.helpedMembers =
                                          Append(@, call.passed[1].member)]
                                 ELSE helpers[i]
          /\ (/\ Len(pending') > Len(pending)
               /\ pending'[Len(pending')].op = "enqueue") =>
                  /\ \A i \in DOMAIN students :
                         students[i].member # pending'[Len(pending')].who
                  /\ students' = students \o pending'[Len(pending')].passed
          /\ Len(pending') < Len(pending) =>
                  /\ students' = students
                  /\ helpers' = helpers
                  /\ \E i \in DOMAIN pending :
                         /\ pending' = Landed(pending[i].slot)
                         /\ outcome'.op = pending[i].op
                         /\ outcome'.who = pending[i].who
                         /\ outcome'.op = "dequeueWithHelper" =>
                                outcome'.student = pending[i].passed]_vars

\* two helpers have dequeued at once and each holds a requester of its own
C39_Witness ==
    /\ Len(pending) = 2
    /\ pending[1].op = "dequeueWithHelper"
    /\ pending[2].op = "dequeueWithHelper"
    /\ pending[1].who # pending[2].who
    /\ pending[1].passed[1].member # pending[2].passed[1].member

\* C40: a call whose awaited send or render never returns stays in flight
\* and holds nothing: every other call in flight whose awaited sends, hooks
\* and render settle comes to its end, the event loop being fair to it.
C40_HangHoldsNothing ==
    \A slot \in Slots :
        (\E i \in DOMAIN pending : pending[i].slot = slot /\ pending[i].hang = "none")
            ~> (\A i \in DOMAIN pending : pending[i].slot # slot)

\* a dequeue hangs on its render; the requester it took has joined the
\* line again since, and that enqueue has come to its end
C40_Witness ==
    /\ Len(pending) = 1
    /\ pending[1].op = "dequeueWithHelper"
    /\ pending[1].hang = "render"
    /\ \E i \in DOMAIN students : students[i].member = pending[1].passed[1].member
    /\ outcome.op = "enqueue"
    /\ outcome.status = "resolved"
    /\ outcome.who = pending[1].passed[1].member

\* C30: the notification group changes only in addToNotifGroup and
\* removeFromNotifGroup: openQueue, closeQueue, enqueue, dequeueWithHelper,
\* removeStudent and removeAllStudents leave it as it is, and the two calls
\* on the group leave the helpers, the waiting line and isOpen as they are.
C30_NotifGroupFrame ==
    [][/\ notifGroup' # notifGroup =>
              outcome'.op \in {"addToNotifGroup", "removeFromNotifGroup"}
       /\ outcome'.op \in {"addToNotifGroup", "removeFromNotifGroup"} =>
              /\ helpers' = helpers
              /\ students' = students
              /\ isOpen' = isOpen]_vars

\* a member who had subscribed to the notices joined the line and is
\* subscribed still
C30_Witness ==
    /\ outcome.op = "enqueue"
    /\ outcome.status = "resolved"
    /\ outcome.who \in notifGroup
    /\ InLine(outcome.who)

\* C31: an openQueue(h, notify) that passes its check sends the open
\* notice to every member of the notification group, one each, when notify
\* is true and to nobody when it is false, and takes no member out of the
\* notification group.
C31_OpenNotice ==
    [][\A helperMember \in Staff : \A notify \in BOOLEAN :
          (~OpenQueueRejects(helperMember)
               /\ OpenQueue(helperMember, notify, "ok")) =>
              /\ outcome'.status = "resolved"
              /\ outcome'.notified = IF notify THEN notifGroup ELSE {}
              /\ notifGroup' = notifGroup]_vars

\* a helper opened the queue with two members subscribed: both were sent
\* the notice and both are subscribed still
C31_Witness ==
    /\ outcome.op = "openQueue"
    /\ outcome.status = "resolved"
    /\ Cardinality(outcome.notified) = 2
    /\ notifGroup = outcome.notified

\* C32: removeStudent(p) takes out of the line the requester whose member
\* is p and no other, wherever p stands and whether the queue is open or
\* closed, and the others keep their order; when p is not in the line
\* the call is rejected and the line stays as it is.
C32_RemoveStudentByIdentity ==
    [][outcome'.op = "removeStudent" =>
          IF outcome'.who \in LineMembers(students)
          THEN /\ students' = SelectSeq(students,
                                  LAMBDA s : s.member # outcome'.who)
               /\ Len(students') = Len(students) - 1
               /\ outcome'.error # "is not in the queue"
          ELSE /\ outcome'.status = "rejected"
               /\ outcome'.error = "is not in the queue"
               /\ students' = students]_vars

\* a requester left the line of a closed queue, and the two others stay
C32_Witness ==
    /\ outcome.op = "removeStudent"
    /\ outcome.status = "resolved"
    /\ ~isOpen
    /\ Len(students) = 2
    /\ outcome.who \notin LineMembers(students)

\* C33: a call that one of its own checks rejects (openQueue by a member
\* already helping, closeQueue on a closed queue or by a member who is not
\* helping, enqueue, dequeueWithHelper and removeStudent failing a check)
\* leaves helpers, the waiting line, the notification group and isOpen as
\* they are, sends no notice, calls no extension hook and asks for no
\* render.
C33_RejectionChangesNothing ==
    [][(outcome'.status = "rejected" /\ outcome'.error # CollaboratorError) =>
          /\ helpers' = helpers
          /\ students' = students
          /\ notifGroup' = notifGroup
          /\ isOpen' = isOpen
          /\ outcome'.notified = {}
          /\ outcome'.hooks = {}
          /\ outcome'.render = "none"
          /\ outcome'.display = <<>>]_vars

\* a member who is not helping asked to close an open queue with a line
\* and a notification group
C33_Witness ==
    /\ outcome.op = "closeQueue"
    /\ outcome.status = "rejected"
    /\ outcome.error = "You are not one of the helpers"
    /\ isOpen
    /\ students # <<>>
    /\ notifGroup # {}

----------------------------------------------------------------------------
(* Properties of combineMethodMaps *)

\* combineMethodMaps has returned
Combined == methodMaps # <<>> /\ methodMaps[1].returned

\* C27: in the combined table every key of the base table still has the
\* handler of base yabob: no extension replaces it.
C27_BaseEntriesKept ==
    Combined =>
        \A id \in DOMAIN methodMaps[1].given.base :
            methodMaps[1].combined[id] = methodMaps[1].given.base[id]

\* the sources that hold an id: 0 for base yabob, i for the i-th extension
SourcesOf(id) ==
    LET base == methodMaps[1].given.base
        extensions == methodMaps[1].given.extensions
    IN  {source \in 0..Len(extensions) :
            IF source = 0 THEN id \in DOMAIN base
            ELSE id \in DOMAIN extensions[source]}

\* C28: the keys of the combined table are the keys of the base table
\* together with the keys of every extension; a key that exactly one
\* source holds has the handler of that source; with no extension the
\* combined table is the base table.
C28_UnionOfEntries ==
    Combined =>
        LET base == methodMaps[1].given.base
            extensions == methodMaps[1].given.extensions
            combined == methodMaps[1].combined
        IN  /\ DOMAIN combined = {id \in HandlerIds : SourcesOf(id) # {}}
            /\ \A id \in HandlerIds :
                   SourcesOf(id) = {0} => combined[id] = base[id]
            /\ \A id \in HandlerIds : \A i \in DOMAIN extensions :
                   SourcesOf(id) = {i} => combined[id] = extensions[i][id]
            /\ extensions = <<>> => combined = base

\* base yabob and two extensions have each an id of their own, and the
\* combined table has all three
C28_Witness ==
    /\ Combined
    /\ methodMaps[1].subTable = "buttonMap.guildMethodMap.queue"
    /\ SourcesOf("id1") = {0}
    /\ SourcesOf("id2") = {1}
    /\ SourcesOf("id3") = {2}
    /\ DOMAIN methodMaps[1].combined = HandlerIds

\* C29: after combineMethodMaps has returned, the base table and the table
\* of every extension hold the entries they held before the call.
C29_InputsUntouched ==
    Combined =>
        /\ methodMaps[1].base = methodMaps[1].given.base
        /\ methodMaps[1].extensions = methodMaps[1].given.extensions

====
